---------------------------- MODULE Spec2Model ----------------------------
(***************************************************************************)
(* Model of src/lambda_function.py: a Lambda entry point that reads a      *)
(* Calendly API key from Secrets Manager, fetches the scheduled events of  *)
(* every (event type, status) combination page by page, uploads the raw    *)
(* table to S3, computes one row of metrics and uploads it as well.        *)
(*                                                                         *)
(* One step of the model is one blocking interaction of the program with   *)
(* its environment (secret lookup, HTTP request, S3 put) together with all *)
(* the code that runs up to the next interaction.  An exception raised in  *)
(* a step is caught by lambda_handler's except clause in the same step.    *)
(***************************************************************************)
EXTENDS Integers, Sequences, FiniteSets, TLC

VARIABLES
    pc,               \* position of lambda_handler
    clock,            \* wall clock, in ticks of the timestamp's resolution
    timestamp,        \* module global, line 25
    S3_CALENDLY_PATH, \* module global, line 26
    S3_METRICS_PATH,  \* module global, line 27
    run,              \* number of invocations of lambda_handler so far
    runStart,         \* clock value at which the current invocation began
    org_uri,          \* local of fetch_calendly_scheduled_calls
    event_types,      \* local of fetch_calendly_scheduled_calls
    k,                \* index of the current (event_type, status) combination
    url,              \* page the while loop requests next, NoLink when falsy
    visited,          \* pages of the current combination requested so far
    all_events,       \* local of fetch_calendly_scheduled_calls
    calendly_df,      \* local of lambda_handler
    metrics_df,       \* local of lambda_handler
    response,         \* the last HTTP response of this invocation
    calls,            \* HTTP requests issued in this invocation, per endpoint
    writes,           \* put_object calls issued in this invocation
    store,            \* the bucket: key -> invocation that wrote the object
    result            \* what lambda_handler returned in this invocation

vars == << pc, clock, timestamp, S3_CALENDLY_PATH, S3_METRICS_PATH, run,
           runStart, org_uri, event_types, k, url, visited, all_events,
           calendly_df, metrics_df, response, calls, writes, store, result >>

-----------------------------------------------------------------------------
(* Bounds of the model *)

MaxPages == 2      \* pages the server holds for one combination
MaxEvents == 6     \* rows of a table handed to calculate_metrics directly
MaxRuns == 2       \* invocations of lambda_handler in one process

-----------------------------------------------------------------------------
(* Values of the environment *)

HTTP_OK == 200     \* line 68, 82, 122
NoResponse == 0    \* requests.get or response.json() raised
NoLink == 0        \* next_page absent, None or ""
NoResult == 0      \* lambda_handler has not returned
SUCCESS == 200     \* line 211
FAILURE == 500     \* line 218

\* status codes a response can carry: 200, a 2xx other than 200, an error
StatusCodes == {HTTP_OK, 204, 500}

\* uris of the event types the organization has
EventTypeIds == <<"etA", "etB">>

\* line 112
Statuses == <<"active", "canceled">>

\* what get_event_types can return: the uris of the listed collection
EventTypeLists == {SubSeq(EventTypeIds, 1, n) : n \in 0..Len(EventTypeIds)}

\* the "event_status" field of an item of a page
EventStatusField == {"absent", "completed"}

\* the "collection" of a page: no item, or one item
PageBodies == {<<>>} \cup {<<f>> : f \in EventStatusField}

\* the next_page link of page p: none, or the page after it; the pages of
\* a combination form a finite chain, numbered 1, 2, ... along its links
PageLinks(p) == {NoLink} \cup {q \in {p + 1} : q <= MaxPages}

\* statuses a row handed to calculate_metrics can carry
RowStatuses ==
    {"active", "completed", "canceled", "no_show", "deleted", "rescheduled"}

SeqsUpTo(S, n) == UNION {[1..m -> S] : m \in 0..n}

-----------------------------------------------------------------------------
(* Module-level code, lines 24-27 *)

\* f"{S3_FOLDER_PATH}calendly_scheduled_calls_{timestamp}.csv"
RawKey(ts) == [name |-> "calendly_scheduled_calls", ts |-> ts]

\* f"{S3_FOLDER_PATH}campaign_metrics_{timestamp}.csv"
MetricsKey(ts) == [name |-> "campaign_metrics", ts |-> ts]

-----------------------------------------------------------------------------
(* upload_to_s3, lines 45-60 *)

\* an upload without the check for an empty table
ShouldUploadAlways(df) == TRUE

\* not df.empty
ShouldUpload(df) == df # <<>>

\* the bucket after put_object(Key = key)
PutObject(st, key, r) ==
    [x \in DOMAIN st \cup {key} |-> IF x = key THEN r ELSE st[x]]

-----------------------------------------------------------------------------
(* calculate_metrics, lines 152-187 *)

\* calendly_df["status"].value_counts().to_dict().get(s, 0)
RECURSIVE CountStatus(_, _)
CountStatus(df, s) ==
    IF df = <<>> THEN 0
    ELSE (IF Head(df).status = s THEN 1 ELSE 0) + CountStatus(Tail(df), s)

\* round(n / d, 0) as Python rounds: to nearest, a tie to the even neighbour
RoundHalfEven(n, d) ==
    LET q == n \div d
        r == n % d
    IN  IF 2 * r < d THEN q
        ELSE IF 2 * r > d THEN q + 1
        ELSE IF q % 2 = 0 THEN q ELSE q + 1

\* a percentage rounded to one decimal, round(..., 1)
pctOneDecimal(value, total) ==
    IF total > 0 THEN RoundHalfEven(value * 1000, total) * 10 ELSE 0

\* pct, line 170-171, in hundredths of a percent:
\* round((value / total) * 100, 2) if total > 0 else 0
pct(value, total) ==
    IF total > 0 THEN RoundHalfEven(value * 10000, total) ELSE 0

\* a count of the rows with status completed alone
completed_callsCompletedOnly(df) == CountStatus(df, "completed")

\* status_counts.get("active", 0) + status_counts.get("completed", 0), line 164
completed_calls(df) == CountStatus(df, "active") + CountStatus(df, "completed")

calculate_metrics(df, ts) ==
    IF df = <<>> THEN <<>>
    ELSE LET total == Len(df)
             completed == completed_calls(df)
             canceled == CountStatus(df, "canceled")
             no_show == CountStatus(df, "no_show")
             deleted == CountStatus(df, "deleted")
         IN  << [ timestamp |-> ts,
                  total_scheduled_calls |-> total,
                  completed_calls |-> completed,
                  canceled_calls |-> canceled,
                  no_show_calls |-> no_show,
                  deleted_calls |-> deleted,
                  completed_percentage |-> pct(completed, total),
                  canceled_percentage |-> pct(canceled, total),
                  no_show_percentage |-> pct(no_show, total),
                  deleted_percentage |-> pct(deleted, total) ] >>

-----------------------------------------------------------------------------
(* fetch_calendly_scheduled_calls, lines 92-147 *)

\* the combinations of the two for loops, in iteration order
NumCombinations(types) == Len(types) * Len(Statuses)
CombType(types, c) == types[((c - 1) \div Len(Statuses)) + 1]
CombStatus(c) == Statuses[((c - 1) % Len(Statuses)) + 1]

\* the dict appended for one item of a page, lines 127-134
MapEvent(et, st, field) ==
    [event_type |-> et, status |-> IF field = "absent" THEN st ELSE field]

MapPage(et, st, body) == [x \in 1..Len(body) |-> MapEvent(et, st, body[x])]

\* a response: the endpoint, status_code, len(collection), next_page
Response(kind, code, n, link) ==
    [kind |-> kind, code |-> code, n |-> n, link |-> link]

\* a loop that keeps the url it has while the response names a next page
NextUrlSamePage(u, code, link) ==
    IF code = HTTP_OK /\ link # NoLink THEN u ELSE NoLink

\* the url of the while loop after the response to a request for u:
\* line 137 on a 200, the break of line 140 otherwise
NextUrl(u, code, link) == IF code = HTTP_OK THEN link ELSE NoLink

\* a fetch that starts the collection afresh when a page fails
AccumulateOrReset(all, code, et, st, body) ==
    IF code = HTTP_OK THEN all \o MapPage(et, st, body) ELSE <<>>

\* all_events after a response: lines 122-134
Accumulate(all, code, et, st, body) ==
    IF code = HTTP_OK THEN all \o MapPage(et, st, body) ELSE all

\* a check that lets every organization lookup through
NoOrgUriIgnored(x) == FALSE

\* a check for None alone
NoOrgUriNoneOnly(x) == x = "None"

\* "not org_uri": None and "" are falsy
NoOrgUri(x) == x \in {"None", ""}

\* "not event_types": [] is falsy
NoEventTypes(x) == x = <<>>

-----------------------------------------------------------------------------
(* lambda_handler, lines 191-220 *)

Returned(code, body) == [statusCode |-> code, body |-> body]

\* a handler without the except clause: the exception leaves the entry point
FailUnhandled(e) ==
    /\ pc' = "Failed"
    /\ UNCHANGED result

\* the except clause, lines 215-220: e is the exception that was raised
Fail(e) ==
    /\ pc' = "Failed"
    /\ result' = Returned(FAILURE, e)

Called(endpoint) == [calls EXCEPT ![endpoint] = @ + 1]

globals == << timestamp, S3_CALENDLY_PATH, S3_METRICS_PATH >>
fetchLocals == << org_uri, event_types, k, url, visited, all_events >>

\* the state after the module is imported, lines 1-27, at clock 0
Init ==
    /\ pc = "Idle"
    /\ clock = 0
    /\ timestamp = 0
    /\ S3_CALENDLY_PATH = RawKey(0)
    /\ S3_METRICS_PATH = MetricsKey(0)
    /\ run = 0
    /\ runStart = 0
    /\ org_uri = "None"
    /\ event_types = <<>>
    /\ k = 0
    /\ url = NoLink
    /\ visited = {}
    /\ all_events = <<>>
    /\ calendly_df = <<>>
    /\ metrics_df = <<>>
    /\ response = Response("none", NoResponse, 0, NoLink)
    /\ calls = [org |-> 0, types |-> 0, events |-> 0]
    /\ writes = <<>>
    /\ store = <<>>
    /\ result = Returned(NoResult, "")

\* the runtime calls lambda_handler, in a new process or in a reused one,
\* at the time of the import or one tick later
Invoke ==
    /\ pc \in {"Idle", "Done", "Failed"}
    /\ run < MaxRuns
    /\ \E t \in {clock, clock + 1} : clock' = t /\ runStart' = t
    /\ run' = run + 1
    /\ pc' = "Start"
    /\ org_uri' = "None"
    /\ event_types' = <<>>
    /\ k' = 0
    /\ url' = NoLink
    /\ visited' = {}
    /\ all_events' = <<>>
    /\ calendly_df' = <<>>
    /\ metrics_df' = <<>>
    /\ response' = Response("none", NoResponse, 0, NoLink)
    /\ calls' = [org |-> 0, types |-> 0, events |-> 0]
    /\ writes' = <<>>
    /\ result' = Returned(NoResult, "")
    /\ UNCHANGED << globals, store >>

\* the first invocation in a process
ColdStart == run = 0 /\ Invoke

\* get_calendly_api_key, lines 30-42 and 195: returns the key or re-raises
GetApiKey ==
    /\ pc = "Start"
    /\ \/ /\ pc' = "SecretFetched"
          /\ UNCHANGED result
       \/ Fail("secret")
    /\ UNCHANGED << clock, globals, run, runStart, fetchLocals, calendly_df,
                    metrics_df, response, calls, writes, store >>

\* lines 94-97 with get_calendly_org_uri, lines 63-74
GetOrgUri ==
    /\ pc = "SecretFetched"
    /\ calls' = Called("org")
    /\ \/ \E code \in StatusCodes, org \in {"", "org1"} :
            LET uri == IF code = HTTP_OK THEN org ELSE "None"
            IN  /\ response' = Response("org", code, 0, NoLink)
                /\ org_uri' = uri
                /\ pc' = IF NoOrgUri(uri) THEN "RawFetched" ELSE "OrgResolved"
                /\ UNCHANGED result
       \/ /\ response' = Response("org", NoResponse, 0, NoLink)
          /\ Fail("org")
          /\ UNCHANGED org_uri
    /\ UNCHANGED << clock, globals, run, runStart, event_types, k, url,
                    visited, all_events, calendly_df, metrics_df, writes,
                    store >>

\* lines 99-109 with get_event_types, lines 77-88
GetEventTypes ==
    /\ pc = "OrgResolved"
    /\ calls' = Called("types")
    /\ \/ \E code \in StatusCodes, listed \in EventTypeLists :
            LET types == IF code = HTTP_OK THEN listed ELSE <<>>
            IN  /\ response' = Response("types", code, Len(types), NoLink)
                /\ event_types' = types
                /\ IF NoEventTypes(types)
                   THEN pc' = "RawFetched" /\ UNCHANGED << k, url >>
                   ELSE pc' = "Paging" /\ k' = 1 /\ url' = 1
                /\ UNCHANGED result
       \/ /\ response' = Response("types", NoResponse, 0, NoLink)
          /\ Fail("event_types")
          /\ UNCHANGED << event_types, k, url >>
    /\ UNCHANGED << clock, globals, run, runStart, org_uri, visited,
                    all_events, calendly_df, metrics_df, writes, store >>

\* one iteration of the while loop, lines 119-140, and the code that follows
\* it up to the next request: the for loops' next combination (lines
\* 111-117) or the return of the table (lines 142-147)
FetchPage ==
    /\ pc = "Paging"
    /\ url # NoLink
    /\ calls' = Called("events")
    /\ LET et == CombType(event_types, k)
           st == CombStatus(k)
       IN  \/ \E code \in StatusCodes, body \in PageBodies, link \in PageLinks(url) :
                \* the body of a response that is not 200 is not read
                /\ code # HTTP_OK => body = <<>> /\ link = NoLink
                /\ LET all == Accumulate(all_events, code, et, st, body)
                       next == NextUrl(url, code, link)
                   IN  /\ response' = Response("events", code, Len(body), link)
                       /\ all_events' = all
                       /\ IF next # NoLink
                          THEN /\ url' = next
                               /\ visited' = visited \cup {url}
                               /\ UNCHANGED << k, pc, calendly_df >>
                          ELSE IF k < NumCombinations(event_types)
                          THEN /\ k' = k + 1
                               /\ url' = 1
                               /\ visited' = {}
                               /\ UNCHANGED << pc, calendly_df >>
                          ELSE /\ pc' = "RawFetched"
                               /\ calendly_df' = all
                               /\ url' = next
                               /\ visited' = visited \cup {url}
                               /\ UNCHANGED k
                       /\ UNCHANGED result
           \/ /\ response' = Response("events", NoResponse, 0, NoLink)
              /\ Fail("events")
              /\ UNCHANGED << k, url, visited, all_events, calendly_df >>
    /\ UNCHANGED << clock, globals, run, runStart, org_uri, event_types,
                    metrics_df, writes, store >>

\* upload_to_s3(calendly_df, S3_CALENDLY_PATH), line 202
UploadRaw ==
    /\ pc = "RawFetched"
    /\ IF ShouldUpload(calendly_df)
       THEN /\ writes' = Append(writes, S3_CALENDLY_PATH)
            /\ \/ /\ store' = PutObject(store, S3_CALENDLY_PATH, run)
                  /\ pc' = "RawUploaded"
                  /\ UNCHANGED result
               \/ /\ Fail("put raw")
                  /\ UNCHANGED store
       ELSE /\ pc' = "RawUploaded"
            /\ UNCHANGED << writes, store, result >>
    /\ UNCHANGED << clock, globals, run, runStart, fetchLocals, calendly_df,
                    metrics_df, response, calls >>

\* metrics_df = calculate_metrics(calendly_df), line 205
CalculateMetrics ==
    /\ pc = "RawUploaded"
    /\ metrics_df' = calculate_metrics(calendly_df, timestamp)
    /\ pc' = "MetricsComputed"
    /\ UNCHANGED << clock, globals, run, runStart, fetchLocals, calendly_df,
                    response, calls, writes, store, result >>

\* the second upload handed the path of the first
MetricsUploadPathCopied == S3_CALENDLY_PATH

\* the path handed to the second upload_to_s3, line 206
MetricsUploadPath == S3_METRICS_PATH

\* upload_to_s3(metrics_df, S3_METRICS_PATH) and the return, lines 206-213
UploadMetrics ==
    /\ pc = "MetricsComputed"
    /\ IF ShouldUpload(metrics_df)
       THEN /\ writes' = Append(writes, MetricsUploadPath)
            /\ \/ /\ store' = PutObject(store, MetricsUploadPath, run)
                  /\ pc' = "Done"
                  /\ result' = Returned(SUCCESS, "completed successfully")
               \/ /\ Fail("put metrics")
                  /\ UNCHANGED store
       ELSE /\ pc' = "Done"
            /\ result' = Returned(SUCCESS, "completed successfully")
            /\ UNCHANGED << writes, store >>
    /\ UNCHANGED << clock, globals, run, runStart, fetchLocals, calendly_df,
                    metrics_df, response, calls >>

\* the steps lambda_handler takes by itself once invoked
Step ==
    \/ GetApiKey
    \/ GetOrgUri
    \/ GetEventTypes
    \/ FetchPage
    \/ UploadRaw
    \/ CalculateMetrics
    \/ UploadMetrics

\* one invocation in a fresh process
Next == ColdStart \/ Step

Spec == Init /\ [][Next]_vars

\* invocations in a process the runtime reuses
NextWarm == Invoke \/ Step

WarmSpec == Init /\ [][NextWarm]_vars

-----------------------------------------------------------------------------
(* The page loop alone: the state in which fetch_calendly_scheduled_calls   *)
(* enters its for loops, line 111, after a listing of one or more types     *)

InitPaging ==
    /\ pc = "Paging"
    /\ event_types \in EventTypeLists \ {<<>>}
    /\ k = 1
    /\ url = 1
    /\ visited = {}
    /\ all_events = <<>>
    /\ clock = 0
    /\ timestamp = 0
    /\ S3_CALENDLY_PATH = RawKey(0)
    /\ S3_METRICS_PATH = MetricsKey(0)
    /\ run = 1
    /\ runStart = 0
    /\ org_uri = "org1"
    /\ calendly_df = <<>>
    /\ metrics_df = <<>>
    /\ response = Response("types", HTTP_OK, Len(event_types), NoLink)
    /\ calls = [org |-> 1, types |-> 1, events |-> 0]
    /\ writes = <<>>
    /\ store = <<>>
    /\ result = Returned(NoResult, "")

\* requests.get blocks until it returns or raises, and the loop then goes on
PagingSpec == InitPaging /\ [][FetchPage]_vars /\ WF_vars(FetchPage)

-----------------------------------------------------------------------------
(* calculate_metrics on a table given directly: the handler stands at line  *)
(* 205 with some table in calendly_df, of rows with any of RowStatuses      *)

Rows == [event_type : {"etA"}, status : RowStatuses]

InitAgg ==
    /\ pc = "RawUploaded"
    /\ calendly_df \in SeqsUpTo(Rows, MaxEvents)
    /\ clock = 0
    /\ timestamp = 0
    /\ S3_CALENDLY_PATH = RawKey(0)
    /\ S3_METRICS_PATH = MetricsKey(0)
    /\ run = 1
    /\ runStart = 0
    /\ org_uri = "org1"
    /\ event_types = <<"etA">>
    /\ k = NumCombinations(event_types)
    /\ url = NoLink
    /\ visited = {1}
    /\ all_events = calendly_df
    /\ metrics_df = <<>>
    /\ response = Response("events", HTTP_OK, 0, NoLink)
    /\ calls = [org |-> 1, types |-> 1, events |-> NumCombinations(event_types)]
    /\ writes = IF ShouldUpload(calendly_df) THEN <<S3_CALENDLY_PATH>> ELSE <<>>
    /\ store = IF ShouldUpload(calendly_df)
               THEN PutObject(<<>>, S3_CALENDLY_PATH, run) ELSE <<>>
    /\ result = Returned(NoResult, "")

AggSpec == InitAgg /\ [][CalculateMetrics]_vars

-----------------------------------------------------------------------------
(* Properties *)

IsPrefix(a, b) == Len(a) <= Len(b) /\ SubSeq(b, 1, Len(a)) = a

Range(f) == {f[x] : x \in DOMAIN f}

\* this step issued a request for a page of scheduled events
PageStep == calls'.events = calls.events + 1

Is2xx(c) == c \in 200..299

\* the response received is an HTTP response with a status outside 2xx
Non2xx(r) == r.code # NoResponse /\ ~Is2xx(r.code)

\* C1: a non-2xx response to a page request leaves the accumulated events
\* as they are and only ends the current combination: the fetch goes on
\* with the first page of the next combination, or, after the last one,
\* returns the accumulated events; all_events never loses an element during
\* a fetch and the table returned is all_events.
C1_PageFailureKeepsEvents ==
    [][ /\ pc = "Paging" => IsPrefix(all_events, all_events')
        /\ pc = "Paging" /\ pc' = "RawFetched" => calendly_df' = all_events'
        /\ PageStep /\ Non2xx(response') =>
              /\ all_events' = all_events
              /\ IF k < NumCombinations(event_types)
                 THEN pc' = "Paging" /\ k' = k + 1 /\ url' = 1
                 ELSE pc' = "RawFetched" /\ calendly_df' = all_events
      ]_vars

\* events of type A were collected, the last combination (type B, canceled)
\* failed with a non-2xx response, and the table returned holds them
C1_Witness ==
    /\ pc = "RawFetched"
    /\ event_types = EventTypeIds
    /\ response.kind = "events"
    /\ Non2xx(response)
    /\ \E x \in DOMAIN calendly_df : calendly_df[x].event_type = "etA"

\* the organization lookup was answered with a status outside 2xx
OrgLookupRejected == response.kind = "org" /\ Non2xx(response)

\* the event-type listing was answered with a status outside 2xx, or with
\* an empty collection
EventTypeListingBad ==
    /\ response.kind = "types"
    /\ response.code # NoResponse
    /\ ~Is2xx(response.code) \/ event_types = <<>>

HasReturned == result.statusCode # NoResult

\* C2 as stated: after a non-2xx organization lookup, or a non-2xx or
\* empty event-type listing, the run ends in Failed and lambda_handler
\* returns status 500, never 200.
C2_LookupFailureReturns500 ==
    (OrgLookupRejected \/ EventTypeListingBad) =>
        /\ pc \notin {"RawUploaded", "MetricsComputed", "Done"}
        /\ HasReturned => pc = "Failed" /\ result.statusCode = FAILURE

\* C2 amended: after a non-2xx organization lookup, or a non-2xx or empty
\* event-type listing, nothing is raised: the fetch has returned an empty
\* table, no page of events is requested, nothing is written to the store,
\* the run never is in Failed, and what lambda_handler returns is status 200.
C2_LookupFailureReturnsEmpty200 ==
    (OrgLookupRejected \/ EventTypeListingBad) =>
        /\ pc \in {"RawFetched", "RawUploaded", "MetricsComputed", "Done"}
        /\ calendly_df = <<>>
        /\ calls.events = 0
        /\ OrgLookupRejected => calls.types = 0
        /\ writes = <<>>
        /\ HasReturned => pc = "Done" /\ result.statusCode = SUCCESS

\* the handler returned after the organization lookup was rejected
C2_Witness == OrgLookupRejected /\ HasReturned

\* position of the handler in its fixed order of steps
Rank(p) ==
    CASE p = "Idle" -> 0
      [] p = "Start" -> 1
      [] p = "SecretFetched" -> 2
      [] p = "OrgResolved" -> 3
      [] p = "Paging" -> 4
      [] p = "RawFetched" -> 5
      [] p = "RawUploaded" -> 6
      [] p = "MetricsComputed" -> 7
      [] p = "Done" -> 8
      [] p = "Failed" -> 9

NoCalls == calls = [org |-> 0, types |-> 0, events |-> 0]

\* C3: the handler moves through secret fetch, event fetch, raw upload,
\* metrics computation, metrics upload in that order and never back, no
\* step but the page loop runs twice; a step that raises takes the run to
\* Failed with the status-500 result in that same step, and from Failed no
\* request, no store write and no other step follows; a failed secret
\* retrieval leaves zero requests and zero writes.
C3_FixedOrderFailedAbsorbing ==
    /\ [](/\ pc = "Failed" <=> result.statusCode = FAILURE
          /\ pc = "Done" <=> result.statusCode = SUCCESS
          /\ pc \in {"Idle", "Start", "SecretFetched"} => NoCalls /\ writes = <<>>
          /\ pc \in {"OrgResolved", "Paging"} =>
                writes = <<>> /\ calendly_df = <<>> /\ metrics_df = <<>>
          /\ pc \in {"RawFetched", "RawUploaded"} => metrics_df = <<>>
          /\ pc = "RawFetched" => writes = <<>>
          /\ calls.org <= 1 /\ calls.types <= 1
          /\ result.body = "secret" => NoCalls /\ writes = <<>> /\ store = <<>>)
    /\ [][ /\ Rank(pc') > Rank(pc) \/ (pc = "Paging" /\ pc' = "Paging")
           /\ pc = "Failed" => FALSE
           /\ pc' = "Failed" => result'.statusCode = FAILURE
           /\ writes' # writes => pc \in {"RawFetched", "MetricsComputed"}
           /\ metrics_df' # metrics_df => pc = "RawUploaded"
         ]_vars

\* the secret retrieval raised and the handler returned 500
C3_Witness ==
    pc = "Failed" /\ result = Returned(FAILURE, "secret") /\ NoCalls

\* C4: in one run each artifact is written at most once and the metrics
\* write never precedes the raw write; no step removes an object from the
\* store or replaces the raw object once written; when the run fails after
\* the raw upload, it reports 500 and the raw object is in the store.
C4_WritesAtMostOnceNoRollback ==
    /\ [](/\ writes \in {<<>>, <<S3_CALENDLY_PATH>>,
                         <<S3_CALENDLY_PATH, S3_METRICS_PATH>>}
          /\ result.body \in {"put metrics"} =>
                /\ result.statusCode = FAILURE
                /\ writes = <<S3_CALENDLY_PATH, S3_METRICS_PATH>>
                /\ S3_CALENDLY_PATH \in DOMAIN store
                /\ store[S3_CALENDLY_PATH] = run
                /\ S3_METRICS_PATH \notin DOMAIN store)
    /\ [][ /\ DOMAIN store \subseteq DOMAIN store'
           /\ IsPrefix(writes, writes')
           /\ pc # "RawFetched" /\ S3_CALENDLY_PATH \in DOMAIN store =>
                 store'[S3_CALENDLY_PATH] = store[S3_CALENDLY_PATH]
         ]_vars

\* the metrics upload raised after the raw upload succeeded
C4_Witness ==
    /\ pc = "Failed"
    /\ result.body = "put metrics"
    /\ S3_CALENDLY_PATH \in DOMAIN store

\* C5: a put_object call is issued for an artifact exactly when its table
\* is non-empty; a run that ends without a raise has written raw then
\* metrics when the fetched table is non-empty and nothing when it is empty,
\* the metrics table of an empty table being empty.
C5_UploadIffNonEmpty ==
    /\ pc \in {"RawUploaded", "MetricsComputed", "Done"} =>
          (S3_CALENDLY_PATH \in Range(writes) <=> calendly_df # <<>>)
    /\ pc \in {"MetricsComputed", "Done"} =>
          (metrics_df = <<>> <=> calendly_df = <<>>)
    /\ pc = "Done" =>
          /\ S3_METRICS_PATH \in Range(writes) <=> metrics_df # <<>>
          /\ writes = IF calendly_df # <<>>
                      THEN <<S3_CALENDLY_PATH, S3_METRICS_PATH>> ELSE <<>>
          /\ DOMAIN store = Range(writes)

\* a run over a non-empty table ended without a raise, with two writes
C5_Witness == pc = "Done" /\ calendly_df # <<>> /\ Len(writes) = 2

\* a run whose fetch succeeded with an empty table ended with no write
C5_WitnessEmpty ==
    pc = "Done" /\ calls.events > 0 /\ calendly_df = <<>> /\ writes = <<>>

\* the number of rows of df with status st, counted over the rows' indices
NumWithStatus(df, st) == Cardinality({x \in DOMAIN df : df[x].status = st})

Percentages(m) ==
    << m.completed_percentage, m.canceled_percentage,
       m.no_show_percentage, m.deleted_percentage >>

\* the sum of the four percentages, in hundredths of a percent
PercentageSum(m) ==
    m.completed_percentage + m.canceled_percentage
        + m.no_show_percentage + m.deleted_percentage

\* C6: for a non-empty table calculate_metrics returns one row whose total
\* is the number of rows, whose completed_calls is the number of active
\* rows plus the number of completed rows, whose canceled, no_show and
\* deleted counts are the numbers of rows with exactly that status; the
\* four counts add up to at most the total and each percentage lies in
\* [0, 100] (0..10000 hundredths), whatever other statuses the rows carry.
C6_MetricsCounts ==
    pc = "MetricsComputed" /\ calendly_df # <<>> =>
        /\ Len(metrics_df) = 1
        /\ LET m == metrics_df[1]
           IN  /\ m.total_scheduled_calls = Len(calendly_df)
               /\ m.completed_calls = NumWithStatus(calendly_df, "active")
                                        + NumWithStatus(calendly_df, "completed")
               /\ m.canceled_calls = NumWithStatus(calendly_df, "canceled")
               /\ m.no_show_calls = NumWithStatus(calendly_df, "no_show")
               /\ m.deleted_calls = NumWithStatus(calendly_df, "deleted")
               /\ m.completed_calls + m.canceled_calls + m.no_show_calls
                     + m.deleted_calls <= m.total_scheduled_calls
               /\ \A x \in 1..4 : Percentages(m)[x] \in 0..10000

\* metrics of a table with an active row, a completed row and a row of a
\* status outside the five
C6_Witness ==
    /\ pc = "MetricsComputed"
    /\ NumWithStatus(calendly_df, "active") = 1
    /\ NumWithStatus(calendly_df, "completed") = 1
    /\ NumWithStatus(calendly_df, "rescheduled") = 1
    /\ metrics_df # <<>>
    /\ metrics_df[1].completed_calls = 2

\* C7 as stated: the four percentages of every metrics row sum to at most
\* 100 (10000 hundredths).
C7_PercentagesSumAtMost100 ==
    pc = "MetricsComputed" /\ metrics_df # <<>> =>
        PercentageSum(metrics_df[1]) <= 10000

\* C7 amended: each percentage is rounded on its own, so the four sum to at
\* most 100.02 (10002 hundredths): at most 100 plus 0.005 for each of them.
C7_PercentagesSumAtMost100_02 ==
    pc = "MetricsComputed" /\ metrics_df # <<>> =>
        PercentageSum(metrics_df[1]) <= 10002

\* a metrics row whose percentages sum to more than 100
C7_Witness ==
    /\ pc = "MetricsComputed"
    /\ metrics_df # <<>>
    /\ PercentageSum(metrics_df[1]) > 10000

\* C8: the event-type listing is requested only after an organization
\* lookup that gave a non-empty org uri, pages of events only after a
\* listing that gave a non-empty list, and neither lookup is repeated;
\* after an empty or failed listing the fetch result is empty; a first
\* page with zero items raises nothing and the loop goes on as for any
\* other 200 page: to the page it links to, else to the next combination,
\* else to the return.
C8_RequestOrder ==
    /\ [](/\ calls.types > 0 => calls.org = 1 /\ org_uri \notin {"None", ""}
          /\ calls.events > 0 => calls.types = 1 /\ event_types # <<>>
          /\ calls.org <= 1 /\ calls.types <= 1
          /\ EventTypeListingBad =>
                /\ calendly_df = <<>>
                /\ calls.events = 0
                /\ pc \notin {"Paging", "Failed"})
    /\ [][ /\ calls'.org # calls.org => calls.types = 0 /\ calls.events = 0
           /\ calls'.types # calls.types => calls.events = 0
           /\ PageStep /\ visited = {} /\ response'.code = HTTP_OK
                 /\ response'.n = 0 =>
                 /\ pc' # "Failed"
                 /\ all_events' = all_events
                 /\ IF response'.link # NoLink
                    THEN pc' = "Paging" /\ k' = k /\ url' = response'.link
                    ELSE IF k < NumCombinations(event_types)
                    THEN pc' = "Paging" /\ k' = k + 1 /\ url' = 1
                    ELSE pc' = "RawFetched" /\ calendly_df' = all_events
         ]_vars

\* the first page of the first pair came back 200 with zero items and no
\* link, and the loop stands at the first page of the second pair
C8_Witness ==
    /\ pc = "Paging"
    /\ k = 2
    /\ url = 1
    /\ visited = {}
    /\ calls = [org |-> 1, types |-> 1, events |-> 1]
    /\ response = Response("events", HTTP_OK, 0, NoLink)
    /\ all_events = <<>>

\* C9 as stated: the keys of the objects an invocation writes and the
\* timestamp of its metrics row carry the time at which that invocation
\* began.
C9_KeysCarryRunStart ==
    /\ \A x \in DOMAIN writes : writes[x].ts = runStart
    /\ \A x \in DOMAIN metrics_df : metrics_df[x].timestamp = runStart

\* C10: in the page loop the url about to be requested is the first page
\* of a combination nothing was requested of yet, or the link of the
\* previous response of this combination, which had status 200 and whose
\* items were all appended; it was not requested before; the loop of a
\* combination ends exactly at a response that is not 200 or has no link,
\* and no combination is gone back to; and the page loop comes to an end.
C10_SequentialPagination ==
    /\ [](pc = "Paging" =>
            /\ url # NoLink
            /\ url \notin visited
            /\ \/ visited = {} /\ url = 1
               \/ /\ response.kind = "events"
                  /\ response.code = HTTP_OK
                  /\ response.link = url)
    /\ [][ PageStep /\ response'.code # NoResponse =>
             /\ response'.code = HTTP_OK =>
                   Len(all_events') = Len(all_events) + response'.n
             /\ (pc' = "Paging" /\ k' = k) <=>
                   (response'.code = HTTP_OK /\ response'.link # NoLink)
             /\ k' \in {k, k + 1}
         ]_vars
    /\ (pc = "Paging") ~> (pc # "Paging")

\* the last page of a combination was reached by following the links
C10_Witness ==
    /\ pc = "Paging"
    /\ url = MaxPages
    /\ visited = 1..(MaxPages - 1)
    /\ k > 1

=============================================================================
